---- MODULE Spec2Model ----
(***************************************************************************)
(* Model of lsp_installer's interactive filter-and-select screen           *)
(* (src/src/main.rs): StatefulList, App and the event loop run_app.        *)
(*                                                                         *)
(* Strings are sequences of character codes (Rust char scalar values), so  *)
(* that to_lowercase, starts_with and sort are computed, not assumed.      *)
(* Option<usize> is a sequence of length 0 (None) or 1 (Some(i)).          *)
(***************************************************************************)
EXTENDS Integers, Sequences, FiniteSets, TLC

\* ------------------------------------------------------------- bounds
\* Longest query typed into the search box (String is unbounded in the code).
MaxQueryLen == 2
\* Width in bits of the modelled usize (the build's is 32 or 64): len() - 1
\* on an empty list wraps to 2^UsizeBits - 1 when overflow checks are off.
UsizeBits == 3

USIZE_MAX == 2^UsizeBits - 1

\* ------------------------------------------------------------- characters
\* Scalar value of the characters the model types or stores.
Ord(ch) ==
    CASE ch = "P" -> 80
      [] ch = "e" -> 101
      [] ch = "h" -> 104
      [] ch = "n" -> 110
      [] ch = "o" -> 111
      [] ch = "p" -> 112
      [] ch = "q" -> 113
      [] ch = "r" -> 114
      [] ch = "s" -> 115
      [] ch = "t" -> 116
      [] ch = "u" -> 117
      [] ch = "y" -> 121
      [] ch = "z" -> 122

RECURSIVE Str(_)
\* A string literal, given as the sequence of its characters.
Str(chars) ==
    IF chars = <<>> THEN <<>>
    ELSE <<Ord(Head(chars))>> \o Str(Tail(chars))

\* The characters a KeyCode::Char(c) event of the model can carry.
KeyChars == {Ord("p"), Ord("P"), Ord("h"), Ord("y"), Ord("z"), Ord("e"), Ord("q")}

\* ------------------------------------------------------------- Option<usize>
None == <<>>
Some(i) == <<i>>

\* Outcome of a call that may panic: the value it returns, or the panic.
Done(v) == [ok |-> TRUE, v |-> v]
Panicked == [ok |-> FALSE, v |-> None]

\* ------------------------------------------------------------- usize arithmetic
\* a - b on usize.  When a < b the build decides: with overflow checks the
\* subtraction panics (ok = FALSE), without them it wraps modulo 2^UsizeBits.
usize_sub(a, b) ==
    IF a >= b THEN {[ok |-> TRUE, n |-> a - b]}
    ELSE {[ok |-> FALSE, n |-> 0], [ok |-> TRUE, n |-> (a - b) % (2^UsizeBits)]}

\* ------------------------------------------------------------- StatefulList
\* StatefulList::with_items: the selection starts at Some(0) whatever items is.
with_items(its) == [selected |-> Some(0), items |-> its]

\* next with the wrap test off by one (i > len - 1): the last index moves on.
next_off_by_one(sel, its) ==
    IF sel = None THEN {Done(Some(0))}
    ELSE LET i == sel[1] IN
         { IF ~d.ok THEN Panicked
           ELSE IF i > d.n THEN Done(Some(0)) ELSE Done(Some(i + 1))
           : d \in usize_sub(Len(its), 1) }

\* StatefulList::next: the set of outcomes (a new selection, or a panic).
next(sel, its) ==
    IF sel = None THEN {Done(Some(0))}
    ELSE LET i == sel[1] IN
         { IF ~d.ok THEN Panicked
           ELSE IF i >= d.n THEN Done(Some(0)) ELSE Done(Some(i + 1))
           : d \in usize_sub(Len(its), 1) }

\* previous wrapping to len instead of len - 1.
previous_wraps_to_len(sel, its) ==
    IF sel = None THEN {Done(Some(0))}
    ELSE LET i == sel[1] IN
         IF i = 0 THEN {Done(Some(Len(its)))} ELSE {Done(Some(i - 1))}

\* StatefulList::previous
previous(sel, its) ==
    IF sel = None THEN {Done(Some(0))}
    ELSE LET i == sel[1] IN
         IF i = 0
         THEN { IF ~d.ok THEN Panicked ELSE Done(Some(d.n))
                : d \in usize_sub(Len(its), 1) }
         ELSE {Done(Some(i - 1))}

\* StatefulList::unselect
unselect == None

\* ------------------------------------------------------------- strings
\* char::to_lowercase on the ASCII range: 'A'..'Z' map to 'a'..'z'.
lower_char(c) == IF c >= 65 /\ c <= 90 THEN c + 32 ELSE c

RECURSIVE to_lowercase(_)
to_lowercase(s) ==
    IF s = <<>> THEN <<>>
    ELSE <<lower_char(Head(s))>> \o to_lowercase(Tail(s))

\* str::starts_with
starts_with(s, prefix) ==
    /\ Len(prefix) <= Len(s)
    /\ SubSeq(s, 1, Len(prefix)) = prefix

\* String::pop: removes the last character, nothing on the empty string.
pop(s) == IF s = <<>> THEN <<>> ELSE SubSeq(s, 1, Len(s) - 1)

\* Ord for String: lexicographic on the characters.
RECURSIVE str_less(_, _)
str_less(a, b) ==
    IF b = <<>> THEN FALSE
    ELSE IF a = <<>> THEN TRUE
    ELSE IF Head(a) # Head(b) THEN Head(a) < Head(b)
    ELSE str_less(Tail(a), Tail(b))

RECURSIVE insert_sorted(_, _)
insert_sorted(sorted, x) ==
    IF sorted = <<>> THEN <<x>>
    ELSE IF str_less(x, Head(sorted)) THEN <<x>> \o sorted
    ELSE <<Head(sorted)>> \o insert_sorted(Tail(sorted), x)

RECURSIVE sort(_)
\* Vec::sort (stable, ascending).
sort(v) ==
    IF v = <<>> THEN <<>>
    ELSE insert_sorted(sort(SubSeq(v, 1, Len(v) - 1)), v[Len(v)])

\* ------------------------------------------------------------- the filter
\* The closure with the input compared as typed (its to_lowercase dropped).
language_matches_input_as_typed(language, inp) ==
    starts_with(to_lowercase(language), inp)

\* The closure with Some and None swapped: it keeps what does not match.
language_matches_inverted(language, inp) ==
    ~starts_with(to_lowercase(language), to_lowercase(inp))

\* The closure of filter_map: does the language match the input?
language_matches(language, inp) ==
    starts_with(to_lowercase(language), to_lowercase(inp))

\* The filter with the empty input showing nothing instead of the catalog.
displaying_languages_empty_shows_nothing(languages, inp) ==
    IF inp = <<>> THEN <<>>
    ELSE SelectSeq(languages, LAMBDA language : language_matches(language, inp))

\* displaying_languages of run_app: the catalog when the input is empty,
\* otherwise the languages that match, in catalog order.
displaying_languages(languages, inp) ==
    IF inp = <<>> THEN languages
    ELSE SelectSeq(languages, LAMBDA language : language_matches(language, inp))

\* The re-filter selecting the first item without looking at the length.
reset_selection_always_first(displaying) == Some(0)

\* The selection after a re-filter.
reset_selection(displaying) ==
    IF Len(displaying) > 0 THEN Some(0) ELSE unselect

\* ------------------------------------------------------------- state
VARIABLES
    input,                 \* App::input
    input_mode,            \* App::input_mode: "Normal" or "Editing"
    supported_languages,   \* App::supported_languages
    items,                 \* App::state_list.items
    selected,              \* App::state_list.state.selected()
    pc,                    \* run_app: "draw", "read", "ok", "err", "panic"
    key,                   \* the event read in the current iteration
    trail,                 \* history: the last two events, newest first
    io_error,              \* the error terminal.draw or event::read gave, if any
    returned               \* run_app's return value, NotReturned while it runs

vars == <<input, input_mode, supported_languages, items, selected, pc, key, trail,
          io_error, returned>>

\* The io::Error values a failing draw or read can give.
IoErrors == {"Interrupted", "BrokenPipe"}
NoError == "NoError"

\* io::Result<()> of run_app.
NotReturned == <<>>
Ok == <<"Ok">>
Err(e) == <<"Err", e>>

\* The ? operator on an Err(e): return Err(From::from(e)), and From<io::Error>
\* for io::Error gives e itself.
propagate(e) == Err(e)

NoEvent == [code |-> "NoEvent", c |-> 0]
KeyOf(code) == [code |-> code, c |-> 0]
CharKey(c) == [code |-> "Char", c |-> c]

\* History bookkeeping: which navigation the event handled was ("Down", "Up"
\* or "Other") and the selection it found.
Remember(ev) ==
    LET nav == IF ev.code \in {"Down", "Up"} THEN ev.code ELSE "Other"
    IN trail' = SubSeq(<<[nav |-> nav, selected |-> selected]>> \o trail, 1,
                       IF Len(trail) >= 1 THEN 2 ELSE 1)

\* App::default
seed_languages == <<Str(<<"r", "u", "s", "t">>),
                    Str(<<"p", "y", "t", "h", "o", "n">>),
                    Str(<<"p", "h", "p">>)>>

Init ==
    /\ input = <<>>
    /\ input_mode = "Normal"
    /\ supported_languages = sort(seed_languages)
    /\ items = with_items(sort(seed_languages)).items
    /\ selected = with_items(sort(seed_languages)).selected
    /\ pc = "draw"
    /\ key = NoEvent
    /\ trail = <<>>
    /\ io_error = NoError
    /\ returned = NotReturned

\* ------------------------------------------------------------- run_app
\* First match on key.code: Down and Up move the selection in either mode.
Navigate(ev, sel, its) ==
    CASE ev.code = "Down" -> next(sel, its)
      [] ev.code = "Up" -> previous(sel, its)
      [] OTHER -> {Done(sel)}

\* 'q' returning in either mode.
is_quit_any_mode(mode, ev) == ev = CharKey(Ord("q"))

\* Esc returning from Normal mode as 'q' does.
is_quit_on_esc(mode, ev) ==
    mode = "Normal" /\ (ev = CharKey(Ord("q")) \/ ev.code = "Esc")

\* The 'q' arm placed in the Editing match instead of the Normal one.
is_quit_mode_swapped(mode, ev) == mode = "Editing" /\ ev = CharKey(Ord("q"))

\* InputMode::Normal, KeyCode::Char('q'): return Ok(()).
is_quit(mode, ev) == mode = "Normal" /\ ev = CharKey(Ord("q"))

\* Enter leaving Editing as Esc does (the help line of ui advertises Enter).
new_mode_enter_leaves(mode, ev) ==
    IF mode = "Normal"
    THEN IF ev = CharKey(Ord("e")) THEN "Editing" ELSE "Normal"
    ELSE IF ev.code \in {"Esc", "Enter"} THEN "Normal" ELSE "Editing"

\* The assignments to app.input_mode in the second match.
new_mode(mode, ev) ==
    IF mode = "Normal"
    THEN IF ev = CharKey(Ord("e")) THEN "Editing" ELSE "Normal"
    ELSE IF ev.code = "Esc" THEN "Normal" ELSE "Editing"

\* Backspace clearing the whole input (clear() for pop()).
edit_input_backspace_clears(ev, inp) ==
    CASE ev.code = "Char" -> Append(inp, ev.c)
      [] ev.code = "Backspace" -> <<>>
      [] OTHER -> inp

\* InputMode::Editing: push, pop, or leave app.input alone.
edit_input(ev, inp) ==
    CASE ev.code = "Char" -> Append(inp, ev.c)
      [] ev.code = "Backspace" -> pop(inp)
      [] OTHER -> inp

\* The re-filter run for Char only: Backspace edits without re-filtering.
refilters_char_only(ev) == ev.code = "Char"

\* The re-filter run for Esc too.
refilters_on_esc(ev) == ev.code \in {"Char", "Backspace", "Esc"}

\* The re-filter run after every key in Editing (no matches! guard).
refilters_any_key(ev) == TRUE

\* matches!(key.code, KeyCode::Char(_) | KeyCode::Backspace)
refilters(ev) == ev.code \in {"Char", "Backspace"}

\* One iteration's handling of a key event, from the first match to the end
\* of the loop body.
KeyEvent(ev) ==
    /\ pc = "read"
    /\ key' = ev
    /\ Remember(ev)
    /\ UNCHANGED <<supported_languages, io_error>>
    /\ \E nav \in Navigate(ev, selected, items) :
          IF ~nav.ok
          THEN /\ pc' = "panic"
               /\ UNCHANGED <<input, input_mode, items, selected, returned>>
          ELSE IF is_quit(input_mode, ev)
          THEN /\ pc' = "ok"
               /\ returned' = Ok
               /\ selected' = nav.v
               /\ UNCHANGED <<input, input_mode, items>>
          ELSE /\ pc' = "draw"
               /\ returned' = returned
               /\ input_mode' = new_mode(input_mode, ev)
               /\ IF input_mode = "Editing"
                  THEN /\ input' = edit_input(ev, input)
                       /\ IF refilters(ev)
                          THEN LET displaying ==
                                     displaying_languages(supported_languages, input')
                               IN /\ selected' = reset_selection(displaying)
                                  /\ items' = displaying
                          ELSE /\ selected' = nav.v
                               /\ items' = items
                  ELSE /\ input' = input
                       /\ selected' = nav.v
                       /\ items' = items

\* terminal.draw(|f| ui(f, &mut app))?  succeeds: ui reads the state.
Draw ==
    /\ pc = "draw"
    /\ pc' = "read"
    /\ key' = NoEvent
    /\ UNCHANGED <<input, input_mode, supported_languages, items, selected, trail,
                   io_error, returned>>

\* The error of terminal.draw dropped (let _ = ..): the loop goes on to read.
DrawFailsSwallowed ==
    /\ pc = "draw"
    /\ \E e \in IoErrors : io_error' = e
    /\ pc' = "read"
    /\ key' = NoEvent
    /\ UNCHANGED <<input, input_mode, supported_languages, items, selected, trail,
                   returned>>

\* terminal.draw(..)? fails: run_app returns the error.
DrawFails ==
    /\ pc = "draw"
    /\ \E e \in IoErrors :
          /\ io_error' = e
          /\ returned' = propagate(e)
    /\ pc' = "err"
    /\ key' = NoEvent
    /\ UNCHANGED <<input, input_mode, supported_languages, items, selected, trail>>

\* event::read()? fails: run_app returns the error.
ReadFails ==
    /\ pc = "read"
    /\ \E e \in IoErrors :
          /\ io_error' = e
          /\ returned' = propagate(e)
    /\ pc' = "err"
    /\ UNCHANGED <<input, input_mode, supported_languages, items, selected, key, trail>>

\* event::read() returns an event that is not Event::Key (mouse, resize).
OtherEvent ==
    /\ pc = "read"
    /\ pc' = "draw"
    /\ key' = KeyOf("NotAKey")
    /\ Remember(KeyOf("NotAKey"))
    /\ UNCHANGED <<input, input_mode, supported_languages, items, selected,
                   io_error, returned>>

KeyDown == KeyEvent(KeyOf("Down"))
KeyUp == KeyEvent(KeyOf("Up"))
KeyBackspace == KeyEvent(KeyOf("Backspace"))
KeyEsc == KeyEvent(KeyOf("Esc"))
\* A key none of the matches names (Enter stands for all of them).
KeyEnter == KeyEvent(KeyOf("Enter"))
\* The query is capped at MaxQueryLen characters.
KeyChar ==
    \E c \in KeyChars :
        /\ input_mode = "Editing" => Len(input) < MaxQueryLen
        /\ KeyEvent(CharKey(c))

Next ==
    \/ Draw
    \/ DrawFails
    \/ ReadFails
    \/ OtherEvent
    \/ KeyDown
    \/ KeyUp
    \/ KeyChar
    \/ KeyBackspace
    \/ KeyEsc
    \/ KeyEnter

Spec == Init /\ [][Next]_vars

Running == pc \in {"draw", "read"}

TypeOK ==
    /\ input \in Seq(KeyChars) /\ Len(input) <= MaxQueryLen
    /\ input_mode \in {"Normal", "Editing"}
    /\ pc \in {"draw", "read", "ok", "err", "panic"}
    /\ selected = None \/ (Len(selected) = 1 /\ selected[1] \in 0..USIZE_MAX)
    /\ io_error \in IoErrors \cup {NoError}
    /\ returned \in {NotReturned, Ok} \cup {Err(e) : e \in IoErrors}

\* ------------------------------------------------------------- properties
Range(seq) == {seq[i] : i \in DOMAIN seq}
php == Str(<<"p", "h", "p">>)
python == Str(<<"p", "y", "t", "h", "o", "n">>)
rust == Str(<<"r", "u", "s", "t">>)

\* C1: in every reachable state the cursor is None iff VisibleItems is empty,
\* and otherwise it is Some(i) with 0 <= i < len(VisibleItems).
CursorInvariant ==
    /\ (selected = None) <=> (items = <<>>)
    /\ selected # None => (selected[1] >= 0 /\ selected[1] < Len(items))

\* C2: with VisibleItems empty and the cursor None, a navigation-down event is
\* a no-op: the cursor stays None and VisibleItems stays empty.
AdvanceOnEmptyIsNoOp ==
    [][(pc = "read" /\ items = <<>> /\ selected = None /\ key'.code = "Down")
        => (selected' = None /\ items' = <<>>)]_vars

\* C3: in every reachable state VisibleItems is the filter of the catalog by
\* the current query.
DerivedListInvariant ==
    items = displaying_languages(supported_languages, input)

\* C3 witness: the query "py" was typed, Search mode was left and the cursor
\* was moved; the list still shows the filter of "py".
DerivedListWitness ==
    /\ input = Str(<<"p", "y">>)
    /\ input_mode = "Normal"
    /\ key.code = "Up"
    /\ items = <<python>>

\* Case-insensitive prefix test, stated character by character.
IsPrefixIgnoringCase(q, entry) ==
    /\ Len(q) <= Len(entry)
    /\ \A k \in 1..Len(q) : lower_char(entry[k]) = lower_char(q[k])

\* C4: for the current query (every query up to MaxQueryLen is reached) the
\* filter result is exactly the catalog entries whose lowercased form starts
\* with the lowercased query, in catalog order, each once; the empty query
\* gives the whole catalog.
FilterResult ==
    LET cat == supported_languages
        r == displaying_languages(cat, input)
        M == {i \in 1..Len(cat) : IsPrefixIgnoringCase(input, cat[i])}
    IN /\ Len(r) = Cardinality(M)
       /\ \E f \in [1..Len(r) -> M] :
             /\ \A j \in 1..Len(r) : r[j] = cat[f[j]]
             /\ \A j, k \in 1..Len(r) : j < k => f[j] < f[k]
       /\ input = <<>> => r = cat

\* C4 witness: an upper-case query selects the lower-case entries it prefixes.
FilterResultWitness ==
    /\ input = Str(<<"P">>)
    /\ items = <<php, python>>
    /\ key = CharKey(Ord("P"))

\* C5: the filter of a query is contained in the filter of each of its
\* prefixes; appending a character never adds an item to VisibleItems and
\* deleting the last character never removes one.
FilterMonotone ==
    /\ [](\A k \in 0..Len(input) :
            Range(displaying_languages(supported_languages, input))
              \subseteq
            Range(displaying_languages(supported_languages, SubSeq(input, 1, k))))
    /\ [][/\ (key'.code = "Char" /\ input' # input)
                => Range(items') \subseteq Range(items)
          /\ (key'.code = "Backspace" /\ input' # input)
                => Range(items) \subseteq Range(items')]_vars

\* C5 witness: 'y' appended to "p" narrowed the list from two items to one.
FilterMonotoneWitness ==
    /\ input = Str(<<"p", "y">>)
    /\ key = CharKey(Ord("y"))
    /\ items = <<python>>
    /\ pc = "draw"

\* C6: a navigation-down followed by a navigation-up, or up followed by down,
\* returns the cursor to its original value, the empty list with cursor None
\* included.
NavigationRoundTrip ==
    (/\ Len(trail) = 2
     /\ {trail[1].nav, trail[2].nav} = {"Down", "Up"})
        => (pc # "panic" /\ selected = trail[2].selected)

\* C7: on a non-empty list with cursor Some(i), advance gives Some(0) at the
\* last index and Some(i+1) otherwise; retreat gives Some(len-1) at 0 and
\* Some(i-1) otherwise.
CircularWrapAround ==
    [][(pc = "read" /\ items # <<>> /\ selected # None)
        => /\ key'.code = "Down"
                => /\ pc' = "draw"
                   /\ selected' = Some(IF selected[1] = Len(items) - 1
                                       THEN 0 ELSE selected[1] + 1)
           /\ key'.code = "Up"
                => /\ pc' = "draw"
                   /\ selected' = Some(IF selected[1] = 0
                                       THEN Len(items) - 1 ELSE selected[1] - 1)]_vars

\* C7 witness: three navigation-down events on the 3-item list: 0, 1, 2, 0.
CircularWrapAroundWitness ==
    /\ Len(items) = 3
    /\ key.code = "Down"
    /\ selected = Some(0)
    /\ Len(trail) = 2
    /\ trail[1] = [nav |-> "Down", selected |-> Some(2)]
    /\ trail[2] = [nav |-> "Down", selected |-> Some(1)]

\* C8: Esc in Search mode sets Mode to Browse and leaves Query, VisibleItems
\* and the cursor exactly as they were.
CancelPreservesSearchState ==
    [][(pc = "read" /\ input_mode = "Editing" /\ key'.code = "Esc")
        => /\ input_mode' = "Normal"
           /\ input' = input
           /\ items' = items
           /\ selected' = selected
           /\ pc' = "draw"]_vars

\* C8 witness: Search was cancelled with query "p" and the cursor on the
\* second item; both are still there.
CancelPreservesWitness ==
    /\ key.code = "Esc"
    /\ input_mode = "Normal"
    /\ input = Str(<<"p">>)
    /\ items = <<php, python>>
    /\ selected = Some(1)

\* C9 as stated: the loop terminates only via 'q' received in Browse mode,
\* there is no other exit path; 'q' in Search mode is appended to Query.
SingleExitPath ==
    [][/\ (Running /\ ~Running')
            => (pc = "read" /\ input_mode = "Normal" /\ key' = CharKey(Ord("q")))
       /\ (pc = "read" /\ input_mode = "Editing" /\ key' = CharKey(Ord("q")))
            => (Running' /\ input' = Append(input, Ord("q")))]_vars

\* C9 amended: the loop returns Ok only via 'q' received in Browse mode (and
\* that key always returns Ok); it ends otherwise only with the error of a
\* failed draw or read, no event being handled, or with the panic of next or
\* previous on an empty list with a cursor; 'q' in Search mode is appended to
\* Query and the loop goes on.
ExitPaths ==
    [][/\ (pc # "ok" /\ pc' = "ok")
            <=> (pc = "read" /\ input_mode = "Normal" /\ key' = CharKey(Ord("q")))
       /\ (pc # "err" /\ pc' = "err")
            => /\ key' = NoEvent
               /\ UNCHANGED <<input, input_mode, items, selected>>
       /\ (pc # "panic" /\ pc' = "panic")
            => /\ key'.code \in {"Down", "Up"}
               /\ items = <<>>
               /\ selected # None
       /\ (Running /\ ~Running') => pc' \in {"ok", "err", "panic"}
       /\ ~Running => UNCHANGED vars
       /\ (pc = "read" /\ input_mode = "Editing" /\ key' = CharKey(Ord("q")))
            => /\ Running'
               /\ input' = Append(input, Ord("q"))
               /\ input_mode' = "Editing"]_vars

\* C9 witness: 'q' was typed into the query in Search mode, and a later 'q'
\* in Browse mode ended the loop.
ExitPathsWitness ==
    /\ pc = "ok"
    /\ key = CharKey(Ord("q"))
    /\ input_mode = "Normal"
    /\ input = Str(<<"q">>)

\* C10: Mode is Browse initially; it goes from Browse to Search on 'e'
\* received in Browse and on nothing else, from Search to Browse on Esc
\* received in Search and on nothing else.
ModeTransitions ==
    /\ input_mode = "Normal"
    /\ [][/\ (input_mode = "Normal" /\ input_mode' = "Editing")
               <=> (pc = "read" /\ input_mode = "Normal" /\ key' = CharKey(Ord("e")))
          /\ (input_mode = "Editing" /\ input_mode' = "Normal")
               <=> (pc = "read" /\ input_mode = "Editing" /\ key'.code = "Esc")]_vars

\* C10 witness: after 'e' and a typed 'e', Esc brought the mode back to
\* Browse.
ModeTransitionsWitness ==
    /\ input_mode = "Normal"
    /\ key.code = "Esc"
    /\ input = Str(<<"e">>)
    /\ Len(trail) = 2

\* C11: when terminal.draw or event::read fails, the loop ends in that very
\* step and returns that same error; the failing step changes none of Query,
\* Mode, VisibleItems and the cursor, and nothing happens after the return
\* (no retry, no further event, no mutation).
FailurePropagation ==
    [][/\ (io_error = NoError /\ io_error' # NoError)
            => /\ pc' = "err"
               /\ returned' = Err(io_error')
               /\ UNCHANGED <<input, input_mode, items, selected>>
       /\ returned # NotReturned => UNCHANGED vars]_vars

\* C11 witness: reading failed after a search had narrowed the list and the
\* cursor had moved; run_app returned the error and the state is as it was.
FailurePropagationWitness ==
    /\ pc = "err"
    /\ io_error = "BrokenPipe"
    /\ returned = Err("BrokenPipe")
    /\ input = Str(<<"p">>)
    /\ input_mode = "Editing"
    /\ selected = Some(1)

\* C12: after every Char or Backspace event handled in Search mode the list
\* is the filter of the new query and the cursor is Some(0) if that list is
\* non-empty and None otherwise, whatever the cursor and the list were.
CursorResetOnEdit ==
    [][(pc = "read" /\ input_mode = "Editing" /\ key'.code \in {"Char", "Backspace"})
        => /\ pc' = "draw"
           /\ items' = displaying_languages(supported_languages, input')
           /\ items' # <<>> => selected' = Some(0)
           /\ items' = <<>> => selected' = None]_vars

\* C12 witness: a character typed onto a query that already matched nothing:
\* the list is empty as before, and the cursor a navigation key had left at
\* Some(0) is None again.
CursorResetOnEditWitness ==
    /\ key.code = "Char"
    /\ Len(input) = 2
    /\ items = <<>>
    /\ selected = None
    /\ trail[1].selected = Some(0)

\* C13: Backspace in Search mode with an empty Query leaves Query empty, the
\* loop goes on, and afterwards VisibleItems is the full catalog and the
\* cursor is Some(0), whatever the cursor was before.
DeleteOnEmptyQuery ==
    [][(pc = "read" /\ input_mode = "Editing" /\ input = <<>>
           /\ key'.code = "Backspace")
        => /\ pc' = "draw"
           /\ input' = <<>>
           /\ input_mode' = "Editing"
           /\ items' = supported_languages
           /\ selected' = Some(0)]_vars

\* C13 witness: Backspace on the empty query with the cursor on the third
\* item of the full catalog: the cursor is back at Some(0).
DeleteOnEmptyQueryWitness ==
    /\ key.code = "Backspace"
    /\ input_mode = "Editing"
    /\ input = <<>>
    /\ items = <<php, python, rust>>
    /\ selected = Some(0)
    /\ trail[1].selected = Some(2)

\* C14: a Down or Up event leaves Query, Mode and VisibleItems unchanged in
\* either mode, and the cursor it leaves is the one next or previous gives
\* for the cursor and list it found, whatever the mode (no re-filter, no
\* reset in Search mode).
NavigationFrame ==
    [][(pc = "read" /\ key'.code \in {"Down", "Up"})
        => /\ input' = input
           /\ input_mode' = input_mode
           /\ items' = items
           /\ \/ pc' = "draw" /\ Done(selected') \in Navigate(key', selected, items)
              \/ pc' = "panic" /\ Panicked \in Navigate(key', selected, items)
                               /\ selected' = selected]_vars

\* C14 witness: Down in Search mode with query "p" moved the cursor from the
\* first to the second of the two matches.
NavigationFrameWitness ==
    /\ key.code = "Down"
    /\ input_mode = "Editing"
    /\ input = Str(<<"p">>)
    /\ items = <<php, python>>
    /\ selected = Some(1)
    /\ trail[1].selected = Some(0)

\* The event of a step is a key event (not a failed read, not a mouse or
\* resize event).
IsKey(ev) == ev.code \notin {"NoEvent", "NotAKey"}

\* Query across one step: the same, one character longer at the end, or
\* without its last character; changed only in Search mode.
QueryEditedAtTheEnd ==
    /\ \/ input' = input
       \/ \E c \in KeyChars : input' = Append(input, c)
       \/ input # <<>> /\ input' = SubSeq(input, 1, Len(input) - 1)
    /\ input' # input => input_mode = "Editing"

\* C15 as stated: Query changes by one character at the end and only in
\* Search mode, and in Browse mode no key changes Query, VisibleItems or the
\* cursor.
QueryEditDiscipline ==
    [][/\ QueryEditedAtTheEnd
       /\ (pc = "read" /\ input_mode = "Normal" /\ IsKey(key'))
            => (input' = input /\ items' = items /\ selected' = selected)]_vars

\* C15 amended: Query changes by one character at the end and only in Search
\* mode; in Browse mode no key changes Query or VisibleItems, and no key but
\* the navigation keys changes the cursor.
QueryEditDisciplineBrowseNav ==
    [][/\ QueryEditedAtTheEnd
       /\ (pc = "read" /\ input_mode = "Normal" /\ IsKey(key'))
            => /\ input' = input
               /\ items' = items
               /\ key'.code \notin {"Down", "Up"} => selected' = selected]_vars

\* C15 witness: Backspace in Browse mode on the query "pz" with an empty
\* list: nothing was deleted, nothing re-filtered.
QueryEditDisciplineWitness ==
    /\ key.code = "Backspace"
    /\ input_mode = "Normal"
    /\ input = Str(<<"p", "z">>)
    /\ items = <<>>
    /\ selected = None

\* The event is ignored in the mode: not a key event, or a key that is no
\* navigation key and that the mode's match does not name.
Ignored(ev, mode) ==
    \/ ev.code = "NotAKey"
    \/ /\ IsKey(ev)
       /\ ev.code \notin {"Down", "Up"}
       /\ mode = "Normal" => ev \notin {CharKey(Ord("e")), CharKey(Ord("q"))}
       /\ mode = "Editing" => ev.code \notin {"Char", "Backspace", "Esc"}

\* C16: an ignored event leaves Query, Mode, VisibleItems and the cursor
\* unchanged, and the loop continues.
IgnoredEventsChangeNothing ==
    [][(pc = "read" /\ Ignored(key', input_mode))
        => /\ UNCHANGED <<input, input_mode, items, selected>>
           /\ pc' = "draw"
           /\ returned' = NotReturned]_vars

\* C16 witness: Enter in Search mode with query "p" and the cursor on the
\* second match: all still there.
IgnoredEventsWitness ==
    /\ key.code = "Enter"
    /\ input_mode = "Editing"
    /\ input = Str(<<"p">>)
    /\ items = <<php, python>>
    /\ selected = Some(1)

\* next evaluates items.len() - 1 whenever the cursor is Some(i), previous
\* whenever it is Some(0).
EvaluatesLenMinusOne(ev, sel) ==
    \/ ev.code = "Down" /\ sel # None
    \/ ev.code = "Up" /\ sel = Some(0)

\* C17: no sequence of events makes next or previous evaluate
\* items.len() - 1 while items is empty; in particular the loop never panics.
NoNavigationUnderflow ==
    [][/\ ~(pc = "read" /\ items = <<>> /\ EvaluatesLenMinusOne(key', selected))
       /\ pc' # "panic"]_vars

\* C18: in every reachable state with VisibleItems non-empty the cursor is
\* Some(i) with 0 <= i < len(VisibleItems).
NonEmptyCursorInRange ==
    items # <<>>
        => /\ selected # None
           /\ selected[1] >= 0
           /\ selected[1] < Len(items)

\* C18 witness: Up on the empty list had wrapped the cursor to the largest
\* usize; a Backspace then brought items back and the cursor is in range.
NonEmptyCursorWitness ==
    /\ key.code = "Backspace"
    /\ items # <<>>
    /\ selected = Some(0)
    /\ Len(trail) = 2
    /\ trail[1].selected = Some(USIZE_MAX)
    /\ trail[2] = [nav |-> "Up", selected |-> Some(0)]

\* C19: from every reachable state in which the loop runs, the loop can be
\* ended by at most two key events: in Browse mode 'q' can be handled and
\* returns Ok; in Search mode Esc can be handled and leaves the loop running
\* in Browse mode; a pending render can succeed.  The states these steps lead
\* to are reachable, so the conjuncts chain into the path Esc, 'q'.
QuitAlwaysReachable ==
    /\ pc = "draw" => ENABLED (Draw /\ pc' = "read" /\ input_mode' = input_mode)
    /\ (pc = "read" /\ input_mode = "Normal")
         => ENABLED (KeyChar /\ key' = CharKey(Ord("q")) /\ pc' = "ok"
                       /\ returned' = Ok)
    /\ (pc = "read" /\ input_mode = "Editing")
         => ENABLED (KeyEsc /\ pc' = "draw" /\ input_mode' = "Normal")
    /\ Running => input_mode \in {"Normal", "Editing"}

\* C19 witness: the loop was ended by 'q' from a state with an empty list and
\* the cursor wrapped to the largest usize.
QuitAlwaysReachableWitness ==
    /\ pc = "ok"
    /\ returned = Ok
    /\ key = CharKey(Ord("q"))
    /\ items = <<>>
    /\ selected = Some(USIZE_MAX)

====
